---- MODULE Spec2Model ----
(***************************************************************************)
(* Model of the Steam review crawler (src/main.py): the Review record and  *)
(* its id/author derivation, fetch_app_data's cursor-driven page loop,     *)
(* organise_reviews' normalisation, filtering, chunking and sorting, and   *)
(* main's fetch -> organise -> write pipeline.                             *)
(*                                                                         *)
(* Python values are represented as follows.                               *)
(*   str            a sequence of one-character strings, <<"A","b">>       *)
(*   dict           a TLA+ record/function whose DOMAIN is the key set     *)
(*   list           a sequence                                             *)
(*   "YYYY-MM-DD"   the triple <<year, month, day>>: the format is zero    *)
(*                  padded, so comparing the strings is comparing triples  *)
(*   datetime       seconds since 1970-01-01T00:00 in the local zone       *)
(*   an exception   [exc |-> name]; a returned value is [ok |-> value]     *)
(***************************************************************************)
EXTENDS Integers, Sequences, FiniteSets, TLC

(***************************************************************************)
(* Bounds of the model.  ChunkSize and PageSize stand for the literals     *)
(* 5000 (main.py:163) and num_per_page=100 (main.py:99), scaled down so    *)
(* that several chunks and pages occur within the bounds.                  *)
(***************************************************************************)
ChunkSize == 2
PageSize == 2
MaxReviews == 4
MaxFetchPages == 2
MaxLimit == 3

(***************************************************************************)
(* Strings                                                                 *)
(***************************************************************************)
Alphabet == <<"-", "1", "2", "A", "B", "a", "b">>

\* The code point order of the characters used (ASCII: - < 1 < 2 < A < B < a < b).
Code(c) == CHOOSE k \in 1..Len(Alphabet) : Alphabet[k] = c

\* str.lower() on one character.
LowerChar(c) == CASE c = "A" -> "a" [] c = "B" -> "b" [] OTHER -> c

\* str.lower()
Lower(s) == [k \in 1..Len(s) |-> LowerChar(s[k])]

\* Lexicographic order of two strings, as Python compares str values.
RECURSIVE StrLess(_, _)
StrLess(s, t) ==
    IF Len(t) = 0 THEN FALSE
    ELSE IF Len(s) = 0 THEN TRUE
    ELSE IF Code(Head(s)) # Code(Head(t)) THEN Code(Head(s)) < Code(Head(t))
    ELSE StrLess(Tail(s), Tail(t))

(***************************************************************************)
(* Hashes.  SHA-256 and UUIDv5 are treated as injective: the digest of a   *)
(* byte string is represented by the byte string itself under a tag, and   *)
(* digests are ordered by the order of what they tag (a fixed total order  *)
(* standing for the lexicographic order of the hex digits).                *)
(***************************************************************************)
sha256_hexdigest(bytes) == [sha256 |-> bytes]

uuid5_dns(name) == [uuid5 |-> name]

DigestLess(a, b) == StrLess(a.sha256, b.sha256)

(***************************************************************************)
(* class Review                                                            *)
(***************************************************************************)
\* generate_id with the review text left out of the hashed string.
generate_id_without_content(appName, content, author) ==
    sha256_hexdigest(Lower(appName \o <<"-">> \o author))

\* Review.generate_id: SHA-256 of the lowercased "{appName}-{content}-{author}".
generate_id(appName, content, author) ==
    sha256_hexdigest(Lower(appName \o <<"-">> \o content \o <<"-">> \o author))

\* Review(...).__dict__: the attributes __init__ assigns.
Review(author, date, hours, content, comments, source, helpful, funny, recommend, franchise, appName) ==
    [id        |-> generate_id(appName, content, author),
     author    |-> uuid5_dns(author),
     date      |-> date,
     hours     |-> hours,
     content   |-> content,
     comments  |-> comments,
     helpful   |-> helpful,
     funny     |-> funny,
     recommend |-> recommend,
     franchise |-> franchise,
     appName   |-> appName]

(***************************************************************************)
(* Dates                                                                   *)
(***************************************************************************)
\* The proleptic Gregorian date <<y, m, d>> of a day number (days since 1970-01-01).
CivilFromDays(days) ==
    LET z   == days + 719468
        era == z \div 146097
        doe == z - era * 146097
        yoe == (doe - doe \div 1460 + doe \div 36524 - doe \div 146096) \div 365
        doy == doe - (365 * yoe + yoe \div 4 - yoe \div 100)
        mp  == (5 * doy + 2) \div 153
        d   == doy - (153 * mp + 2) \div 5 + 1
        m   == IF mp < 10 THEN mp + 3 ELSE mp - 9
        y   == yoe + era * 400 + (IF m <= 2 THEN 1 ELSE 0)
    IN  <<y, m, d>>

\* The day number of a Gregorian date.
DaysFromCivil(ymd) ==
    LET y   == ymd[1] - (IF ymd[2] <= 2 THEN 1 ELSE 0)
        era == y \div 400
        yoe == y - era * 400
        mp  == IF ymd[2] > 2 THEN ymd[2] - 3 ELSE ymd[2] + 9
        doy == (153 * mp + 2) \div 5 + ymd[3] - 1
        doe == yoe * 365 + yoe \div 4 - yoe \div 100 + doy
    IN  era * 146097 + doe - 719468

\* datetime.datetime.fromtimestamp(ts): the local datetime of an epoch
\* timestamp, in a zone tz seconds east of UTC.
fromtimestamp(ts, tz) == ts + tz

\* datetime.strftime("%Y-%m-%d")
strftime_ymd(dt) == CivilFromDays(dt \div 86400)

\* datetime.datetime.strptime(s, "%Y-%m-%d"): midnight of that date.
strptime_ymd(ymd) == DaysFromCivil(ymd) * 86400

\* Order of two "%Y-%m-%d" strings.
DateLess(a, b) ==
    \/ a[1] < b[1]
    \/ a[1] = b[1] /\ a[2] < b[2]
    \/ a[1] = b[1] /\ a[2] = b[2] /\ a[3] < b[3]

(***************************************************************************)
(* organise_reviews                                                        *)
(***************************************************************************)
None == <<>>

\* A sort key that ignores the id: (x["date"],).
KeyLessDateOnly(x, y) == DateLess(x.date, y.date)

\* The sort key of line 220, (x["date"], x["id"]), compared as Python
\* compares tuples.
KeyLess(x, y) ==
    \/ DateLess(x.date, y.date)
    \/ x.date = y.date /\ DigestLess(x.id, y.id)

RECURSIVE InsertSorted(_, _)
InsertSorted(x, s) ==
    IF s = <<>> THEN <<x>>
    ELSE IF KeyLess(x, Head(s)) THEN <<x>> \o s
    ELSE <<Head(s)>> \o InsertSorted(x, Tail(s))

RECURSIVE SortFrom(_, _)
SortFrom(done, rest) ==
    IF rest = <<>> THEN done
    ELSE SortFrom(InsertSorted(Head(rest), done), Tail(rest))

\* sorted(list, key=lambda x: (x["date"], x["id"])): a stable ascending sort.
sorted(list) == SortFrom(<<>>, list)

\* The raw reviews of all pages in the order the two nested loops visit them.
RECURSIVE Flatten(_)
Flatten(reviews_array) ==
    IF reviews_array = <<>> THEN <<>>
    ELSE Head(reviews_array).reviews \o Flatten(Tail(reviews_array))

\* The Review(...) call of lines 167-181 and 200-214 for one raw review:
\* [exc |-> "KeyError"] when the metadata has no "developers" key.
Normalise(raw, game_data, tz) ==
    IF "developers" \notin DOMAIN game_data.data
    THEN [exc |-> "KeyError"]
    ELSE [ok |-> Review(raw.author.steamid,
                        strftime_ymd(fromtimestamp(raw.timestamp_created, tz)),
                        raw.author.playtime_at_review,
                        raw.review,
                        raw.comment_count,
                        "steam",
                        raw.votes_up,
                        raw.votes_funny,
                        raw.voted_up,
                        game_data.data.developers,
                        game_data.data.name)]

\* The condition of lines 193-199.
InDateRange(raw, date_filters, tz) ==
    /\ strptime_ymd(date_filters[1]) >= fromtimestamp(raw.timestamp_created, tz)
    /\ fromtimestamp(raw.timestamp_created, tz) >= strptime_ymd(date_filters[2])

\* The loop state before the first review: review_list = [[]], counter = 0,
\* pageNum = 0.  An element of review_list is [list |-> <<...>>] (a list) or
\* [dict |-> r] (a Review dict).
LoopStart == [review_list |-> << [list |-> <<>>] >>, counter |-> 0, pageNum |-> 0,
              exc |-> "none"]

\* A new page started one review early: if counter == 5000 - 1.
NewPageOneEarly(st) ==
    IF st.counter = ChunkSize - 1
    THEN [st EXCEPT !.review_list = Append(@, [list |-> <<>>]),
                    !.pageNum = @ + 1,
                    !.counter = 0]
    ELSE st

\* if counter == 5000: start a new page.
NewPageIfFull(st) ==
    IF st.counter = ChunkSize
    THEN [st EXCEPT !.review_list = Append(@, [list |-> <<>>]),
                    !.pageNum = @ + 1,
                    !.counter = 0]
    ELSE st

\* The unfiltered iteration with the page assigned instead of appended to:
\* review_list[pageNum] = [review_dict].
NoFilterStepOverwriting(st, raw, game_data, tz) ==
    LET s1 == NewPageIfFull(st)
        r  == Normalise(raw, game_data, tz)
    IN  IF "exc" \in DOMAIN r
        THEN [s1 EXCEPT !.exc = r.exc]
        ELSE [s1 EXCEPT
                !.review_list[s1.pageNum + 1].list = <<r.ok>>,
                !.counter = @ + 1]

\* One iteration of the inner loop of the unfiltered branch (lines 163-183).
NoFilterStep(st, raw, game_data, tz) ==
    LET s1 == NewPageIfFull(st)
        r  == Normalise(raw, game_data, tz)
    IN  IF "exc" \in DOMAIN r
        THEN [s1 EXCEPT !.exc = r.exc]
        ELSE [s1 EXCEPT
                !.review_list[s1.pageNum + 1].list = Append(@, r.ok),
                !.counter = @ + 1]

\* One iteration of the inner loop of the filtered branch (lines 189-216):
\* line 215 appends the dict to review_list itself.
FilterStep(st, raw, game_data, date_filters, tz) ==
    LET s1 == NewPageIfFull(st)
    IN  IF ~InDateRange(raw, date_filters, tz) THEN s1
        ELSE LET r == Normalise(raw, game_data, tz)
             IN  IF "exc" \in DOMAIN r
                 THEN [s1 EXCEPT !.exc = r.exc]
                 ELSE [s1 EXCEPT
                         !.review_list = Append(@, [dict |-> r.ok]),
                         !.counter = @ + 1]

RECURSIVE OrganiseLoop(_, _, _, _, _)
OrganiseLoop(st, raws, game_data, date_filters, tz) ==
    IF raws = <<>> \/ st.exc # "none" THEN st
    ELSE OrganiseLoop(
           IF date_filters = <<None, None>>
           THEN NoFilterStep(st, Head(raws), game_data, tz)
           ELSE FilterStep(st, Head(raws), game_data, date_filters, tz),
           Tail(raws), game_data, date_filters, tz)

\* Lines 219-220.  Sorting a dict iterates its keys, and the key function
\* subscripts a str with "date": TypeError.
SortPages(review_list) ==
    IF \E k \in 1..Len(review_list) : "dict" \in DOMAIN review_list[k]
    THEN [exc |-> "TypeError"]
    ELSE [ok |-> [k \in 1..Len(review_list) |-> sorted(review_list[k].list)]]

\* organise_reviews(reviews_array, game_data, date_filters, app_id), where
\* game_data stands for game_data[str(app_id)] and tz for the local zone.
organise_reviews(reviews_array, game_data, date_filters, tz) ==
    LET st == OrganiseLoop(LoopStart, Flatten(reviews_array), game_data,
                           date_filters, tz)
    IN  IF st.exc # "none" THEN [exc |-> st.exc]
        ELSE SortPages(st.review_list)

(***************************************************************************)
(* Data the provider may serve                                             *)
(***************************************************************************)
\* The epoch timestamp of hour h (UTC) of a date.
Ts(ymd, h) == DaysFromCivil(ymd) * 86400 + h * 3600

RawReview(steamid, ts, text, playtime, comments, up, funny, voted) ==
    [author            |-> [steamid |-> steamid, playtime_at_review |-> playtime],
     timestamp_created |-> ts,
     review            |-> text,
     comment_count     |-> comments,
     votes_up          |-> up,
     votes_funny       |-> funny,
     voted_up          |-> voted]

\* Raw reviews as the provider returns them (the fields of test.py:60-68).
RawA == RawReview(<<"1">>, Ts(<<2023, 3, 15>>, 12), <<"A", "b">>, 10, 3, 10, 5, TRUE)
RawB == RawReview(<<"2">>, Ts(<<2023, 1, 1>>, 0), <<"b">>, 20, 0, 1, 0, FALSE)
RawC == RawReview(<<"1">>, Ts(<<2023, 12, 1>>, 9), <<"a", "b">>, 30, 1, 2, 1, TRUE)
RawD == RawReview(<<"2">>, Ts(<<2023, 3, 20>>, 12), <<"b">>, 40, 2, 3, 2, FALSE)
RawE == RawReview(<<"2">>, Ts(<<2023, 3, 15>>, 0), <<"a">>, 50, 4, 4, 3, TRUE)

RawReviews == {RawA, RawB, RawC, RawD, RawE}

\* game_data[str(app_id)] of a successful app-details response.
GameWithDevelopers ==
    [success |-> TRUE,
     data |-> [name |-> <<"A">>, developers |-> << <<"B">> >>, type |-> "game"]]

GameWithoutDevelopers ==
    [success |-> TRUE, data |-> [name |-> <<"A">>, type |-> "game"]]

\* The local zones considered: UTC and UTC-5.
TzOffsets == {0, 0 - 18000}

\* date_filters as get_user_input returns it: [last date, earliest date].
DateFilterChoices ==
    { <<None, None>>,
      << <<2023, 3, 20>>, <<2023, 3, 10>> >>,
      << <<2023, 3, 15>>, <<2023, 3, 15>> >> }

\* All sequences over S of length at most n.
RECURSIVE SeqsUpTo(_, _)
SeqsUpTo(S, n) ==
    IF n = 0 THEN {<<>>}
    ELSE LET shorter == SeqsUpTo(S, n - 1)
         IN  shorter \cup {Append(q, x) : q \in shorter, x \in S}

\* The provider's pages for a run of reviews: PageSize per page, the last
\* page holding the rest (num_per_page of line 99).
RECURSIVE Paginate(_)
Paginate(raws) ==
    IF raws = <<>> THEN <<>>
    ELSE IF Len(raws) <= PageSize THEN << [reviews |-> raws] >>
    ELSE << [reviews |-> SubSeq(raws, 1, PageSize)] >>
         \o Paginate(SubSeq(raws, PageSize + 1, Len(raws)))

(***************************************************************************)
(* State                                                                   *)
(***************************************************************************)
VARIABLES
    pc,            \* where the run is
    caller,        \* "main", or "direct" for a call of one function alone
    numReviews,    \* fetch_app_data's page limit, 0 for all
    date_filters,  \* [last date, earliest date] or [None, None]
    tz,            \* the local zone's offset from UTC, in seconds
    cursor,        \* fetch_app_data: cursor
    reviews,       \* fetch_app_data: reviews, the accumulated page responses
    found,         \* fetch_app_data: found
    i,             \* fetch_app_data: the loop index
    review_data,   \* fetch_app_data: the last page response
    game_data,     \* game_data[str(app_id)] of the app-details response
    requests,      \* every requests.get call made so far, in order
    app_data,      \* main: what fetch_app_data returned
    review_array,  \* what organise_reviews returned or raised
    files,         \* the chunks json.dump has written, in order
    exc,           \* the exception that ended the run, or "none"
    ctor_args,     \* arguments of Review(...) calls
    ctor_out       \* the Review objects constructed from them

vars == <<pc, caller, numReviews, date_filters, tz, cursor, reviews, found, i,
          review_data, game_data, requests, app_data, review_array, files, exc,
          ctor_args, ctor_out>>

Pending == [pending |-> TRUE]

(***************************************************************************)
(* organise_reviews called on its own (as test.py:131 does)                *)
(***************************************************************************)
InitOrganise ==
    /\ pc = "organise"
    /\ caller = "direct"
    /\ numReviews = 0
    /\ date_filters \in DateFilterChoices
    /\ tz \in TzOffsets
    /\ cursor = <<"*">>
    /\ reviews \in {Paginate(raws) : raws \in SeqsUpTo(RawReviews, MaxReviews)}
    /\ found = 0
    /\ i = 0
    /\ review_data = Pending
    /\ game_data \in {GameWithDevelopers, GameWithoutDevelopers}
    /\ requests = <<>>
    /\ app_data = Pending
    /\ review_array = Pending
    /\ files = <<>>
    /\ exc = "none"
    /\ ctor_args = <<>>
    /\ ctor_out = <<>>

OrganiseCall ==
    /\ pc = "organise"
    /\ caller = "direct"
    /\ review_array' = organise_reviews(reviews, game_data, date_filters, tz)
    /\ exc' = IF "exc" \in DOMAIN review_array' THEN review_array'.exc ELSE "none"
    /\ pc' = "organised"
    /\ UNCHANGED <<caller, numReviews, date_filters, tz, cursor, reviews, found,
                   i, review_data, game_data, requests, app_data, files,
                   ctor_args, ctor_out>>

SpecOrganise == InitOrganise /\ [][OrganiseCall]_vars

(***************************************************************************)
(* Properties of organise_reviews                                          *)
(***************************************************************************)
Organised == pc = "organised"

\* organise_reviews returned (it did not raise).
Returned == Organised /\ "ok" \in DOMAIN review_array

Chunks == review_array.ok

NoDateFilter == date_filters = <<None, None>>

HasDevelopers == "developers" \in DOMAIN game_data.data

\* The raw reviews handed over, in fetch order.
Fetched == Flatten(reviews)

RECURSIVE Concat(_)
Concat(chunks) ==
    IF chunks = <<>> THEN <<>> ELSE Head(chunks) \o Concat(Tail(chunks))

Emitted == Concat(Chunks)

Occurrences(x, q) == Cardinality({k \in DOMAIN q : q[k] = x})

\* q and r hold the same elements, each the same number of times.
SameBag(q, r) ==
    /\ Len(q) = Len(r)
    /\ \A k \in DOMAIN q : Occurrences(q[k], q) = Occurrences(q[k], r)

\* No element of q sorts before an earlier one.
Ascending(q) ==
    \A a, b \in DOMAIN q :
        a < b => /\ ~DateLess(q[b].date, q[a].date)
                 /\ (q[a].date = q[b].date => ~DigestLess(q[b].id, q[a].id))

\* The local calendar date of a raw review.
LocalDate(raw) == CivilFromDays((raw.timestamp_created + tz) \div 86400)

DateLeq(a, b) == ~DateLess(b, a)

Min(a, b) == IF a < b THEN a ELSE b

\* What a record carries over from its raw review and the metadata.
CarriedFromRaw(raw) ==
    [content   |-> raw.review,
     appName   |-> game_data.data.name,
     hours     |-> raw.author.playtime_at_review,
     comments  |-> raw.comment_count,
     helpful   |-> raw.votes_up,
     funny     |-> raw.votes_funny,
     recommend |-> raw.voted_up]

CarriedInRecord(r) ==
    [content   |-> r.content,
     appName   |-> r.appName,
     hours     |-> r.hours,
     comments  |-> r.comments,
     helpful   |-> r.helpful,
     funny     |-> r.funny,
     recommend |-> r.recommend]

\* C4 as stated: the chunks, concatenated in chunk order, are the whole
\* collection in ascending (date, id) order.
C4_GloballySorted == Returned => Ascending(Emitted)

\* C4 amended: every returned chunk is in ascending (date, id) order, so two
\* records of one chunk with equal date are in ascending id order, and without
\* date bounds chunk k holds the records made from positions
\* [ChunkSize*k, ChunkSize*k + ChunkSize) of the fetch order.
C4_SortedWithinChunks ==
    Returned =>
        /\ \A c \in DOMAIN Chunks : Ascending(Chunks[c])
        /\ NoDateFilter =>
             \A c \in DOMAIN Chunks :
                LET lo == ChunkSize * (c - 1) + 1
                    hi == Min(ChunkSize * c, Len(Fetched))
                IN  SameBag(
                      [k \in DOMAIN Chunks[c] |->
                         <<CarriedInRecord(Chunks[c][k]), Chunks[c][k].date>>],
                      [k \in 1..(hi - lo + 1) |->
                         <<CarriedFromRaw(Fetched[lo + k - 1]),
                           LocalDate(Fetched[lo + k - 1])>>])

\* Two chunks were returned, each sorted, and a record of the second sorts
\* before a record of the first.
C4_Witness ==
    /\ Returned
    /\ Len(Chunks) = 2
    /\ Len(Chunks[1]) = ChunkSize
    /\ \E a \in DOMAIN Chunks[1], b \in DOMAIN Chunks[2] :
          DateLess(Chunks[2][b].date, Chunks[1][a].date)
    /\ \E a, b \in DOMAIN Chunks[1] :
          a < b /\ Chunks[1][a].date = Chunks[1][b].date
                /\ DigestLess(Chunks[1][a].id, Chunks[1][b].id)

\* C5: without date bounds, n reviews give max(1, ceil(n / ChunkSize)) chunks,
\* none larger than ChunkSize, all but the last of exactly ChunkSize, sizes
\* summing to n; no reviews give one empty chunk.
C5_ChunkSizes ==
    (Organised /\ NoDateFilter) =>
        LET n == Len(Fetched)
        IN  /\ (HasDevelopers \/ n = 0) => Returned
            /\ Returned =>
                 /\ Len(Chunks) = (IF n = 0 THEN 1
                                   ELSE (n + ChunkSize - 1) \div ChunkSize)
                 /\ \A c \in DOMAIN Chunks : Len(Chunks[c]) <= ChunkSize
                 /\ \A c \in DOMAIN Chunks :
                       c < Len(Chunks) => Len(Chunks[c]) = ChunkSize
                 /\ Len(Emitted) = n
                 /\ n = 0 => Chunks = << <<>> >>

\* More reviews than one chunk holds were organised into a full chunk and a rest.
C5_Witness ==
    /\ Returned /\ NoDateFilter
    /\ Len(Fetched) > ChunkSize
    /\ Len(Chunks) = 2
    /\ Len(Chunks[2]) < ChunkSize

\* C6 as stated: with date bounds the returned chunks hold exactly the reviews
\* whose calendar date lies between the earliest and the latest bound, both
\* inclusive.
C6_InclusiveDateFilter ==
    (Organised /\ ~NoDateFilter /\ HasDevelopers) =>
        /\ Returned
        /\ LET kept == SelectSeq(Fetched,
                          LAMBDA raw : /\ DateLeq(date_filters[2], LocalDate(raw))
                                       /\ DateLeq(LocalDate(raw), date_filters[1]))
           IN  SameBag([k \in DOMAIN Emitted |-> CarriedInRecord(Emitted[k])],
                       [k \in DOMAIN kept |-> CarriedFromRaw(kept[k])])

\* C7: without date bounds every raw review of every page appears exactly once
\* in the returned chunks, with its content and the metadata's app name; one
\* page holding one review gives one chunk holding that one record.
C7_NothingDroppedOrDuplicated ==
    (Organised /\ NoDateFilter) =>
        /\ HasDevelopers => Returned
        /\ Returned =>
             /\ SameBag([k \in DOMAIN Emitted |-> CarriedInRecord(Emitted[k])],
                        [k \in DOMAIN Fetched |-> CarriedFromRaw(Fetched[k])])
             /\ Len(Fetched) = 1 =>
                   /\ Len(Chunks) = 1
                   /\ Len(Chunks[1]) = 1
                   /\ Chunks[1][1].content = Fetched[1].review
                   /\ Chunks[1][1].appName = game_data.data.name

\* Several pages, one of them repeating a review of another, were organised.
C7_Witness ==
    /\ Returned /\ NoDateFilter
    /\ Len(reviews) = 2
    /\ Len(Emitted) = MaxReviews
    /\ \E a, b \in DOMAIN Fetched : a # b /\ Fetched[a] = Fetched[b]

\* C9 as stated: without a developers entry every review still gets a record,
\* with franchise "Unknown", and nothing is raised.
C9_UnknownFranchise ==
    (Organised /\ NoDateFilter /\ ~HasDevelopers) =>
        /\ Returned
        /\ Len(Emitted) = Len(Fetched)
        /\ \A k \in DOMAIN Emitted : Emitted[k].franchise = "Unknown"

CanonicalFields ==
    {"id", "author", "date", "hours", "content", "comments", "source",
     "helpful", "funny", "recommend", "franchise", "appName"}

\* C10 as stated: every emitted record has the whole canonical field set, with
\* source the provider constant and author the anonymised value.
C10_CanonicalFieldSet ==
    Returned =>
        \A k \in DOMAIN Emitted :
            /\ DOMAIN Emitted[k] = CanonicalFields
            /\ "source" \in DOMAIN Emitted[k] /\ Emitted[k].source = "steam"
            /\ \E raw \in RawReviews :
                  /\ Emitted[k].author = uuid5_dns(raw.author.steamid)
                  /\ Emitted[k].author # raw.author.steamid

(***************************************************************************)
(* Review(...) called on its own (as test.py:11 and test.py:29 do)         *)
(***************************************************************************)
\* Arguments of one Review(...) call.
CtorArgs ==
    [author    : {<<"1">>, <<"2">>},
     date      : {<<2023, 10, 7>>},
     hours     : {100},
     content   : {<<"A", "b">>, <<"a", "b">>, <<"b">>, <<"b", "-", "1">>},
     comments  : {5},
     source    : {"steam"},
     helpful   : {10},
     funny     : {2},
     recommend : {TRUE, FALSE},
     franchise : {<<"B">>},
     appName   : {<<"A">>, <<"a">>, <<"A", "-", "b">>}]

InitReview ==
    /\ pc = "construct"
    /\ caller = "direct"
    /\ numReviews = 0
    /\ date_filters = <<None, None>>
    /\ tz = 0
    /\ cursor = <<"*">>
    /\ reviews = <<>>
    /\ found = 0
    /\ i = 0
    /\ review_data = Pending
    /\ game_data = Pending
    /\ requests = <<>>
    /\ app_data = Pending
    /\ review_array = Pending
    /\ files = <<>>
    /\ exc = "none"
    /\ ctor_args \in {<<a, b>> : a \in CtorArgs, b \in CtorArgs}
    /\ ctor_out = <<>>

\* The next Review(...) call.
ConstructReview ==
    /\ pc = "construct"
    /\ Len(ctor_out) < Len(ctor_args)
    /\ LET a == ctor_args[Len(ctor_out) + 1]
       IN  ctor_out' = Append(ctor_out,
                              Review(a.author, a.date, a.hours, a.content,
                                     a.comments, a.source, a.helpful, a.funny,
                                     a.recommend, a.franchise, a.appName))
    /\ UNCHANGED <<pc, caller, numReviews, date_filters, tz, cursor, reviews,
                   found, i, review_data, game_data, requests, app_data,
                   review_array, files, exc, ctor_args>>

SpecReview == InitReview /\ [][ConstructReview]_vars

BothConstructed == pc = "construct" /\ Len(ctor_out) = 2

\* C8 as stated: for one app name and one raw author id, different review
\* content gives equal author values and different ids.
C8_DifferentContentDifferentId ==
    BothConstructed =>
        ((/\ ctor_args[1].appName = ctor_args[2].appName
          /\ ctor_args[1].author = ctor_args[2].author
          /\ ctor_args[1].content # ctor_args[2].content)
         => /\ ctor_out[1].author = ctor_out[2].author
            /\ ctor_out[1].id # ctor_out[2].id)

\* C8 amended: for one app name and one raw author id, review contents that
\* still differ once lowercased give equal author values and different ids;
\* contents that differ only in letter case give the same id; the author
\* depends on the raw author id alone, and the id on nothing but
\* (appName, content, raw author id).
C8_IdUpToLetterCase ==
    BothConstructed =>
        /\ (/\ ctor_args[1].appName = ctor_args[2].appName
            /\ ctor_args[1].author = ctor_args[2].author)
           => /\ ctor_out[1].author = ctor_out[2].author
              /\ (Lower(ctor_args[1].content) # Lower(ctor_args[2].content)
                    => ctor_out[1].id # ctor_out[2].id)
              /\ (Lower(ctor_args[1].content) = Lower(ctor_args[2].content)
                    => ctor_out[1].id = ctor_out[2].id)
        /\ ctor_args[1].author = ctor_args[2].author
             => ctor_out[1].author = ctor_out[2].author
        /\ (/\ ctor_args[1].appName = ctor_args[2].appName
            /\ ctor_args[1].content = ctor_args[2].content
            /\ ctor_args[1].author = ctor_args[2].author)
           => ctor_out[1].id = ctor_out[2].id

\* Two reviews of one app by one author were built, their contents different
\* also when lowercased, the other arguments not all equal.
C8_Witness ==
    /\ BothConstructed
    /\ ctor_args[1].appName = ctor_args[2].appName
    /\ ctor_args[1].author = ctor_args[2].author
    /\ Lower(ctor_args[1].content) # Lower(ctor_args[2].content)
    /\ ctor_args[1].recommend # ctor_args[2].recommend
    /\ ctor_out[1].id # ctor_out[2].id

(***************************************************************************)
(* fetch_app_data and main                                                 *)
(***************************************************************************)
\* urllib.parse.quote_plus on one character: letters, digits and "_.-~" are
\* kept, a space becomes "+", anything else its percent escape.
QuoteChar(c) ==
    CASE c = "*" -> <<"%", "2", "A">>
      [] c = "+" -> <<"%", "2", "B">>
      [] c = "=" -> <<"%", "3", "D">>
      [] c = "/" -> <<"%", "2", "F">>
      [] c = " " -> <<"+">>
      [] OTHER   -> <<c>>

\* The cursor reused as it was returned, without percent-encoding.
quote_plus_unencoded(str) == str

\* urllib.parse.quote_plus
RECURSIVE quote_plus(_)
quote_plus(str) ==
    IF str = <<>> THEN <<>> ELSE QuoteChar(Head(str)) \o quote_plus(Tail(str))

\* The "success" key of a response: <<b>> for the value b, Absent when the
\* response has no such key.
Absent == <<>>
SuccessValues == {<<TRUE>>, <<FALSE>>, Absent}

\* A review page response of the provider.
PageResponse(raws, next_cursor, success) ==
    IF success = Absent
    THEN [query_summary |-> [num_reviews |-> Len(raws)], reviews |-> raws,
          cursor |-> next_cursor]
    ELSE [query_summary |-> [num_reviews |-> Len(raws)], reviews |-> raws,
          cursor |-> next_cursor, success |-> success[1]]

\* Pages with reviews, and the page that reports none.
NonEmptyResponses ==
    {PageResponse(<<RawA>>, <<"*">>, b) : b \in {<<TRUE>>, <<FALSE>>}}
    \cup {PageResponse(<<RawB, RawE>>, <<"A", "o", "+", "=">>, b) : b \in {<<TRUE>>, Absent}}

EmptyResponses == {PageResponse(<<>>, <<"*">>, b) : b \in SuccessValues}

\* game_data[str(app_id)] of the app-details responses.
GameResponses ==
    {GameWithDevelopers, GameWithoutDevelopers, [success |-> FALSE],
     [data |-> [name |-> <<"A">>, type |-> "game"]]}

\* "success" in d and d["success"]
SuccessIn(d) == "success" \in DOMAIN d /\ d.success

\* The success test with the review response left out.
FetchSucceededInfoOnly(last_review_data, game) == SuccessIn(game)

\* The condition of line 132.
FetchSucceeded(last_review_data, game) ==
    SuccessIn(last_review_data) /\ SuccessIn(game)

\* The "no more reviews" test never stopping the loop.
NoMoreReviewsNever(response) == FALSE

\* Lines 103 and 117: the response reports no reviews.
NoMoreReviews(response) == response.query_summary.num_reviews = 0

\* The loop heads of lines 98 and 112: count(0) never ends, range(numReviews)
\* ends after numReviews iterations.
LoopContinues(n, k) == n = 0 \/ k < n

\* The string fetch_app_data returns on failure (line 137).
NotFound ==
    <<"r", "e", "v", "i", "e", "w", "s", " ", "n", "o", "t", " ",
      "f", "o", "u", "n", "d">>

\* s[k] of a Python str.
StrItem(str, k) == <<str[k + 1]>>

\* organise_reviews handed a str as reviews_array, taken for an empty list.
organise_reviews_str_as_empty(reviews_array) == [ok |-> << <<>> >>]

\* organise_reviews handed a str as reviews_array: for each index of the str,
\* lines 161 and 187 subscript a one-character str with "reviews": TypeError.
organise_reviews_str(reviews_array) ==
    IF Len(reviews_array) = 0 THEN [ok |-> << <<>> >>] ELSE [exc |-> "TypeError"]

Init ==
    /\ pc = "start"
    /\ caller \in {"main", "direct"}
    /\ numReviews = 0
    /\ date_filters = <<None, None>>
    /\ tz \in TzOffsets
    /\ cursor = <<"*">>
    /\ reviews = <<>>
    /\ found = 0
    /\ i = 0
    /\ review_data = Pending
    /\ game_data = Pending
    /\ requests = <<>>
    /\ app_data = Pending
    /\ review_array = Pending
    /\ files = <<>>
    /\ exc = "none"
    /\ ctor_args = <<>>
    /\ ctor_out = <<>>

\* fetch_app_data(app_id, date_filters, numReviews) called on its own
\* (test.py:92), with any page limit.
CallFetch ==
    /\ pc = "start"
    /\ caller = "direct"
    /\ \E n \in 0..MaxLimit : numReviews' = n
    /\ pc' = "fetch"
    /\ UNCHANGED <<caller, date_filters, tz, cursor, reviews, found, i,
                   review_data, game_data, requests, app_data, review_array,
                   files, exc, ctor_args, ctor_out>>

\* get_user_input(): the app is checked for reviews (exit() when it has
\* none); "all" sets numReviews = 0; a whole number reaches `filter > 0`,
\* a str compared with an int: TypeError; then the date bounds are asked for.
GetUserInput ==
    /\ pc = "start"
    /\ caller = "main"
    /\ \E check \in NonEmptyResponses \cup EmptyResponses :
         /\ requests' = Append(requests, [kind |-> "check", cursor |-> <<>>,
                                          response |-> check])
         /\ \/ /\ NoMoreReviews(check)
               /\ pc' = "exited"
               /\ UNCHANGED <<date_filters, exc>>
            \/ /\ ~NoMoreReviews(check)
               /\ pc' = "crashed"
               /\ exc' = "TypeError"
               /\ UNCHANGED date_filters
            \/ /\ ~NoMoreReviews(check)
               /\ pc' = "fetch"
               /\ date_filters' \in DateFilterChoices
               /\ UNCHANGED exc
    /\ numReviews' = 0
    /\ UNCHANGED <<caller, tz, cursor, reviews, found, i, review_data,
                   game_data, app_data, review_array, files, ctor_args, ctor_out>>

\* One iteration of the page loop (lines 99-108 and 113-122).  The provider
\* has at most MaxFetchPages pages with reviews.
FetchPage ==
    /\ pc = "fetch"
    /\ LoopContinues(numReviews, i)
    /\ \E response \in NonEmptyResponses \cup EmptyResponses :
         /\ NoMoreReviews(response) \/ Len(reviews) < MaxFetchPages
         /\ requests' = Append(requests, [kind |-> "page", cursor |-> cursor,
                                          response |-> response])
         /\ review_data' = response
         /\ IF NoMoreReviews(response)
            THEN /\ pc' = "info"
                 /\ UNCHANGED <<cursor, reviews, found, i>>
            ELSE /\ cursor' = quote_plus(response.cursor)
                 /\ reviews' = Append(reviews, response)
                 /\ found' = found + Len(response.reviews)
                 /\ i' = i + 1
                 /\ pc' = "fetch"
    /\ UNCHANGED <<caller, numReviews, date_filters, tz, game_data, app_data,
                   review_array, files, exc, ctor_args, ctor_out>>

\* range(numReviews) is exhausted: the loop's else clause (lines 123-124).
LoopExhausted ==
    /\ pc = "fetch"
    /\ ~LoopContinues(numReviews, i)
    /\ pc' = "info"
    /\ UNCHANGED <<caller, numReviews, date_filters, tz, cursor, reviews, found,
                   i, review_data, game_data, requests, app_data, review_array,
                   files, exc, ctor_args, ctor_out>>

\* Lines 126-137: the app-details request and the returned value.
FetchInfo ==
    /\ pc = "info"
    /\ \E game \in GameResponses :
         /\ requests' = Append(requests, [kind |-> "info", cursor |-> <<>>,
                                          response |-> game])
         /\ game_data' = game
         /\ app_data' = IF FetchSucceeded(review_data, game)
                        THEN [kind |-> "tuple", reviews |-> reviews,
                              game_data |-> game]
                        ELSE [kind |-> "str", chars |-> NotFound]
    /\ pc' = "fetched"
    /\ UNCHANGED <<caller, numReviews, date_filters, tz, cursor, reviews, found,
                   i, review_data, review_array, files, exc, ctor_args, ctor_out>>

\* main, line 318: organise_reviews(app_data[0], app_data[1], ...).  Of the
\* failure string, app_data[0] is its first character.
MainOrganise ==
    /\ pc = "fetched"
    /\ caller = "main"
    /\ review_array' =
         IF app_data.kind = "str"
         THEN organise_reviews_str(StrItem(app_data.chars, 0))
         ELSE organise_reviews(app_data.reviews, app_data.game_data,
                               date_filters, tz)
    /\ IF "exc" \in DOMAIN review_array'
       THEN pc' = "crashed" /\ exc' = review_array'.exc
       ELSE pc' = "save" /\ exc' = exc
    /\ UNCHANGED <<caller, numReviews, date_filters, tz, cursor, reviews, found,
                   i, review_data, game_data, requests, app_data, files,
                   ctor_args, ctor_out>>

\* main, lines 329-336: the next chunk is written to its file.
WriteFile ==
    /\ pc = "save"
    /\ Len(files) < Len(review_array.ok)
    /\ files' = Append(files, review_array.ok[Len(files) + 1])
    /\ UNCHANGED <<pc, caller, numReviews, date_filters, tz, cursor, reviews,
                   found, i, review_data, game_data, requests, app_data,
                   review_array, exc, ctor_args, ctor_out>>

\* main, lines 337-339: every chunk is written.
MainDone ==
    /\ pc = "save"
    /\ Len(files) = Len(review_array.ok)
    /\ pc' = "done"
    /\ UNCHANGED <<caller, numReviews, date_filters, tz, cursor, reviews, found,
                   i, review_data, game_data, requests, app_data, review_array,
                   files, exc, ctor_args, ctor_out>>

Next ==
    \/ CallFetch
    \/ GetUserInput
    \/ FetchPage
    \/ LoopExhausted
    \/ FetchInfo
    \/ MainOrganise
    \/ WriteFile
    \/ MainDone

Spec == Init /\ [][Next]_vars

(***************************************************************************)
(* Properties of fetch_app_data and main                                   *)
(***************************************************************************)
PageRequests == SelectSeq(requests, LAMBDA r : r.kind = "page")

InfoRequests == SelectSeq(requests, LAMBDA r : r.kind = "info")

ReportsNoReviews(r) == r.response.query_summary.num_reviews = 0

ReportsSuccess(r) == "success" \in DOMAIN r.response /\ r.response.success = TRUE

FetchReturned == "kind" \in DOMAIN app_data

\* C1: with a page limit N >= 1, page requests are made until the first
\* response that reports no reviews or until N requests are made, then one
\* app-details request; one page with reviews followed by a page without
\* gives two page requests and one app-details request for N >= 2, and N = 1
\* gives one page request and one page.
C1_PagesThenOneInfoRequest ==
    numReviews >= 1 =>
        LET pages == PageRequests
            infos == InfoRequests
        IN  /\ Len(pages) <= numReviews
            /\ \A k \in 1..(Len(pages) - 1) : ~ReportsNoReviews(pages[k])
            /\ Len(requests) = Len(pages) + Len(infos)
            /\ Len(infos) <= 1
            /\ \A k \in DOMAIN requests :
                 requests[k].kind = "info" =>
                    /\ k = Len(requests)
                    /\ Len(pages) >= 1
                    /\ \/ ReportsNoReviews(pages[Len(pages)])
                       \/ Len(pages) = numReviews
            /\ pc = "fetch" =>
                 /\ infos = <<>>
                 /\ \A k \in DOMAIN pages : ~ReportsNoReviews(pages[k])
            /\ FetchReturned =>
                 /\ Len(infos) = 1
                 /\ (/\ numReviews >= 2
                     /\ ~ReportsNoReviews(pages[1])
                     /\ Len(pages) >= 2
                     /\ ReportsNoReviews(pages[2]))
                    => Len(pages) = 2
                 /\ (numReviews = 1 /\ ~ReportsNoReviews(pages[1]))
                    => /\ Len(pages) = 1
                       /\ Len(reviews) = 1
                       /\ app_data.kind = "tuple" => Len(app_data.reviews) = 1

\* With the largest page limit, a page with reviews and then a page without
\* were served, and the fetch returned after two page requests and one
\* app-details request.
C1_Witness ==
    /\ FetchReturned
    /\ numReviews = MaxLimit
    /\ Len(PageRequests) = 2
    /\ ~ReportsNoReviews(PageRequests[1])
    /\ ReportsNoReviews(PageRequests[2])
    /\ Len(InfoRequests) = 1
    /\ requests[3].kind = "info"

\* C2: the (pages, metadata) pair is returned only when the last review page
\* response received and the app-details response both carry success = true;
\* otherwise the failure string is returned, and no pages with it.
C2_PairOnlyOnSuccess ==
    FetchReturned =>
        LET last == PageRequests[Len(PageRequests)]
            info == InfoRequests[1]
        IN  /\ app_data.kind = "tuple" <=> (ReportsSuccess(last) /\ ReportsSuccess(info))
            /\ app_data.kind = "tuple" =>
                 /\ app_data.reviews = reviews
                 /\ app_data.game_data = info.response
            /\ app_data.kind # "tuple" =>
                 /\ app_data.kind = "str"
                 /\ app_data.chars = NotFound
                 /\ "reviews" \notin DOMAIN app_data

\* Pages were accumulated, the app-details response reports success, the last
\* page response has no success flag, and the failure string was returned.
C2_Witness ==
    /\ FetchReturned
    /\ app_data.kind = "str"
    /\ Len(reviews) >= 2
    /\ ReportsSuccess(InfoRequests[1])
    /\ "success" \notin DOMAIN PageRequests[Len(PageRequests)].response

\* C3: after fetch_app_data has returned its failure string to main, no file
\* is ever written: main ends in an uncaught exception before the first write.
C3_NoWriteAfterFailedFetch ==
    (caller = "main" /\ FetchReturned /\ app_data.kind = "str") =>
        /\ files = <<>>
        /\ pc \in {"fetched", "crashed"}
        /\ pc = "crashed" => exc = "TypeError"

\* main went on after a failed fetch that had accumulated pages, and ended
\* in the exception.
C3_Witness ==
    /\ caller = "main"
    /\ FetchReturned
    /\ app_data.kind = "str"
    /\ Len(reviews) >= 1
    /\ pc = "crashed"
    /\ files = <<>>

\* The percent-encoded form of each cursor the provider returns.
PercentEncoded(c) ==
    CASE c = <<"*">> -> <<"%", "2", "A">>
      [] c = <<"A", "o", "+", "=">> -> <<"A", "o", "%", "2", "B", "%", "3", "D">>

\* The responses among q that report reviews, in order.
WithReviews(q) ==
    LET kept == SelectSeq(q, LAMBDA r : ~ReportsNoReviews(r))
    IN  [k \in DOMAIN kept |-> kept[k].response]

\* C11: the first page request of a fetch carries the cursor "*"; the k-th
\* (k > 1) carries the percent-encoded cursor of the (k-1)-th response, which
\* reported reviews; the cursor is the one of the last accumulated page, so
\* it changes only when a page with reviews is accumulated; the accumulated
\* and the returned pages are the responses that reported reviews, never the
\* terminating one.
C11_CursorChain ==
    LET pages == PageRequests
    IN  /\ Len(pages) >= 1 => pages[1].cursor = <<"*">>
        /\ \A k \in 2..Len(pages) :
             /\ ~ReportsNoReviews(pages[k - 1])
             /\ pages[k].cursor = PercentEncoded(pages[k - 1].response.cursor)
        /\ reviews = WithReviews(pages)
        /\ \A k \in DOMAIN reviews : reviews[k].query_summary.num_reviews # 0
        /\ cursor = IF reviews = <<>> THEN <<"*">>
                    ELSE PercentEncoded(reviews[Len(reviews)].cursor)
        /\ (FetchReturned /\ app_data.kind = "tuple") =>
             /\ app_data.reviews = WithReviews(pages)
             /\ \A k \in DOMAIN app_data.reviews :
                   app_data.reviews[k].query_summary.num_reviews # 0

\* Two pages with reviews and then a page without were requested, the second
\* and third request with the encoded cursors of the responses before them,
\* and the two pages were returned.
C11_Witness ==
    /\ FetchReturned
    /\ app_data.kind = "tuple"
    /\ Len(PageRequests) = 3
    /\ PageRequests[1].response.cursor = <<"A", "o", "+", "=">>
    /\ PageRequests[2].cursor = <<"A", "o", "%", "2", "B", "%", "3", "D">>
    /\ PageRequests[2].response.cursor = <<"*">>
    /\ PageRequests[3].cursor = <<"%", "2", "A">>
    /\ ReportsNoReviews(PageRequests[3])
    /\ Len(app_data.reviews) = 2

====
